---- MODULE Spec2Model ----
(***************************************************************************)
(* Model of the DTS migration service: the metadata store of task rows,    *)
(* the live-task map (TaskManager), the facade operations of               *)
(* MigrationService / TaskHandler, and the state-machine worker goroutine  *)
(* that StartTask spawns.  Two state vocabularies coexist in the source    *)
(* (model/utils.go and the newer StateType); both are kept here.           *)
(***************************************************************************)
EXTENDS Integers, Sequences, FiniteSets, TLC

VARIABLES
    store,      \* migration_tasks table: task id -> row (or NoTask)
    manager,    \* TaskManager.tasks: task id -> 0 (absent) or the worker slot whose task object is registered
    workers,    \* one record per StartTask call / worker goroutine: position and locals
    conns,      \* Connections registry of the task object each StartTask call loaded
    switching,  \* task ids with a SwitchTask request past the handler's state check
    crashed,    \* TRUE once an unrecovered panic in a worker goroutine has ended the process
    calls,      \* number of facade requests accepted so far
    source,     \* source database: wal_level, the task's slot and publication, read-only flag
    streaming,    \* Subscriber: ProcessReplicationStream is in its receive loop
    pending,      \* Subscriber: the XLogData message handleCopyData is working on, or NoMsg
    tableMapping, \* wal.Handler: relation ids with a recorded table mapping
    lastStart,    \* source: wal_start of the latest XLogData message it delivered
    lastAck,      \* source: write position of the latest standby status update received
    maxAck,       \* source: highest write position acknowledged so far
    inTxn,        \* stream: a Begin was delivered and its Commit is not yet handled
    txnRow,       \* stream: wal_start of the first row event of that transaction, -1 for none
    walEnd,       \* source: the end of its WAL as far as the stream has shown it
    loop,         \* worker: the retry loop around sm.Execute of the stage in hand
    ctx,          \* the context.Context StartTask hands to the worker goroutine
    request,      \* the HTTP request whose handler called StartTask
    val,          \* ValidatingState.Execute: position, attempt and result of its loop
    counts,       \* row counts of the covered tables on the source and on the target
    response,     \* TaskHandler.SwitchTask: the response last written
    creating,     \* CreateTaskWithID calls in flight: position and result of each
    rowOwner,     \* store: the create call whose INSERT each row comes from, 0 for none
    outcome,      \* the facade call that returned last: operation, state it read, result
    validated,    \* history: task ids for which an execution of ValidatingState returned nil
    copy,         \* TargetRepository.copyDataBatched: position, offset and executions so far
    targetTable   \* the target table: source row -> number of copies of it the table holds

svcVars == <<store, manager, workers, conns, switching, crashed, calls, source>>
walVars == <<streaming, pending, tableMapping, lastStart, lastAck, maxAck, inTxn, txnRow,
            walEnd>>
extVars == <<creating, rowOwner, outcome, validated, copy, targetTable>>
auxVars == <<loop, ctx, request, val, counts, response, extVars>>
vars == <<store, manager, workers, conns, switching, crashed, calls, source,
          streaming, pending, tableMapping, lastStart, lastAck, maxAck, inTxn, txnRow, walEnd,
          loop, ctx, request, val, counts, response, creating, rowOwner, outcome,
          validated, copy, targetTable>>

(***************************************************************************)
(* Bounds                                                                  *)
(***************************************************************************)
MaxCalls == 2
MaxLsn == 3
MaxRows == 1
MaxCopies == 2

\* every StartTask / ResumeTask call is a request of its own and may spawn a worker
Workers == 1..MaxCalls
TaskIds == {"t1"}
ConnKeys == {"source", "target"}

(***************************************************************************)
(* model.StateType                                                         *)
(***************************************************************************)
StateType ==
    {"init", "connect", "create_tables", "full_sync", "inc_sync", "waiting",
     "validating", "completed", "failed", "paused", "deleted"}

LegacyStateType ==
    {"init", "creating_tables", "migrating_data", "syncing_wal", "stopping_writes",
     "validating", "finalizing", "completed", "failed", "paused"}

AllStates == StateType \cup LegacyStateType

IsTerminal(s) == s \in {"completed", "failed", "deleted"}

\* StateType.CanTransition: the transition table of the newer vocabulary
Transitions(s) ==
    CASE s = "init"          -> {"connect", "failed"}
      [] s = "connect"       -> {"create_tables", "failed", "paused"}
      [] s = "create_tables" -> {"full_sync", "failed", "paused"}
      [] s = "full_sync"     -> {"inc_sync", "failed", "paused"}
      [] s = "inc_sync"      -> {"waiting", "failed", "paused"}
      [] s = "waiting"       -> {"validating", "failed", "paused"}
      [] s = "validating"    -> {"completed", "failed"}
      [] s = "paused"        -> {"connect", "create_tables", "full_sync", "inc_sync", "waiting", "failed"}
      [] OTHER               -> {}

CanTransition(s, target) == target \in Transitions(s)

\* StateType.CanTransition of model/utils.go: the table of the older vocabulary
LegacyTransitions(s) ==
    CASE s = "init"            -> {"creating_tables", "failed"}
      [] s = "creating_tables" -> {"migrating_data", "failed", "paused"}
      [] s = "migrating_data"  -> {"syncing_wal", "failed", "paused"}
      [] s = "syncing_wal"     -> {"stopping_writes", "failed", "paused"}
      [] s = "stopping_writes" -> {"validating", "failed"}
      [] s = "validating"      -> {"finalizing", "failed"}
      [] s = "finalizing"      -> {"completed", "failed"}
      [] s = "paused"          -> {"migrating_data", "syncing_wal", "failed"}
      [] OTHER                 -> {}

LegacyCanTransition(s, target) == target \in LegacyTransitions(s)

(***************************************************************************)
(* state package: the State objects and the StateMachine                   *)
(***************************************************************************)
\* getInitialState: the State object the machine starts at for a persisted name
getInitialState(stateName) ==
    IF stateName \in {"init", "creating_tables", "migrating_data", "syncing_wal",
                      "stopping_writes", "validating", "finalizing", "completed",
                      "failed", "paused"}
    THEN stateName
    ELSE "init"

\* State.Next of every concrete state; the empty set is a nil Next.
\* ValidatingState is defined twice in the source, once advancing to
\* CompletedState and once to FinalizingState: either build is allowed.
StateNext(s) ==
    CASE s = "init"            -> {"creating_tables"}
      [] s = "creating_tables" -> {"migrating_data"}
      [] s = "migrating_data"  -> {"syncing_wal"}
      [] s = "syncing_wal"     -> {"stopping_writes"}
      [] s = "stopping_writes" -> {"validating"}
      [] s = "validating"      -> {"completed", "finalizing"}
      [] s = "finalizing"      -> {"completed"}
      [] s = "connect"         -> {"create_tables"}
      [] s = "create_tables"   -> {"full_sync"}
      [] s = "full_sync"       -> {"inc_sync"}
      [] s = "inc_sync"        -> {"waiting"}
      [] s = "waiting"         -> {"validating"}
      [] OTHER                 -> {}

\* State.CanTransition: BaseState answers true; these states override it
StateCanTransition(s) == s \notin {"waiting", "paused", "completed", "failed", "deleted"}

\* the state the machine holds after a successful Execute of state s
AdvanceTargets(s) ==
    IF StateCanTransition(s) /\ StateNext(s) # {} THEN StateNext(s) ELSE {s}

\* registry keys a state's Execute opens through GetOrCreate*GORMConnection
StateConns(s) ==
    CASE s \in {"init", "creating_tables", "migrating_data", "validating"} -> {"source", "target"}
      [] s \in {"syncing_wal", "stopping_writes", "finalizing"}            -> {"source"}
      [] OTHER                                                             -> {}

\* what a failing Execute may have opened before it returned its error
ConnPrefixes(s) == {{}} \cup {StateConns(s) \cap {"source"}} \cup {StateConns(s)}

\* states whose Execute only closes the registry or does nothing never fail
CanFail(s) == s \notin {"paused", "completed", "failed", "deleted"}

\* an InitState.Execute without the wal_level comparison
CanSucceedUnchecked(s, src) == TRUE

\* InitState.Execute returns nil only when the source reports wal_level logical
CanSucceed(s, src) == s = "init" => src.wal_level = "logical"

WalLevelError == "source database wal_level must be 'logical'"

\* the source database after a successful Execute of state s: SyncingWAL
\* creates the task's slot and publication when missing, StoppingWrites sets
\* default_transaction_read_only, Finalizing resets it
SourceAfter(s, src) ==
    CASE s \in {"syncing_wal", "inc_sync"} -> [src EXCEPT !.slot = TRUE, !.publication = TRUE]
      [] s = "stopping_writes" -> [src EXCEPT !.read_only = TRUE]
      [] s = "finalizing"      -> [src EXCEPT !.read_only = FALSE]
      [] OTHER                 -> src

\* the source database after a failed Execute of state s: SyncingWAL may have
\* created the slot before the publication step failed
SourcePartial(s, src) ==
    IF s \in {"syncing_wal", "inc_sync"} THEN {src, [src EXCEPT !.slot = TRUE]} ELSE {src}

(***************************************************************************)
(* service package helpers                                                 *)
(***************************************************************************)
\* error texts the retry loop ends with in the model: one carrying a retry
\* hint (attempts exhausted), one without
ExecErrors == {"connection refused", "permission denied"}

\* the errors Execute of state s can end with on this source
StageErrors(s, src) ==
    IF s = "init" /\ src.wal_level # "logical"
    THEN ExecErrors \cup {WalLevelError}
    ELSE ExecErrors

progressForState(s) ==
    CASE s = "init"            -> 5
      [] s = "creating_tables" -> 20
      [] s = "migrating_data"  -> 60
      [] s = "syncing_wal"     -> 75
      [] s = "stopping_writes" -> 85
      [] s = "validating"      -> 95
      [] s = "finalizing"      -> 99
      [] s = "completed"       -> 100
      [] OTHER                 -> 0

(***************************************************************************)
(* repository.MigrationRepository over the migration_tasks table           *)
(***************************************************************************)
\* started_at and completed_at say whether the column is set (not NULL)
NoTask == [state |-> "absent", progress |-> 0, error_message |-> "",
           started_at |-> FALSE, completed_at |-> FALSE]

Exists(st, id) == st[id] # NoTask

NewTask == [state |-> "init", progress |-> 0, error_message |-> "",
            started_at |-> FALSE, completed_at |-> FALSE]

\* an UPDATE of the state column alone
UpdateStateOnly(st, id, state, errorMsg) ==
    IF ~Exists(st, id) THEN st ELSE [st EXCEPT ![id].state = state]

\* UPDATE ... WHERE id = ?: no row, no effect; error_message only when non-empty
UpdateState(st, id, state, errorMsg) ==
    IF ~Exists(st, id) THEN st
    ELSE [st EXCEPT ![id].state = state,
                    ![id].error_message = IF errorMsg # "" THEN errorMsg ELSE @]

UpdateProgress(st, id, progress) ==
    IF ~Exists(st, id) THEN st
    ELSE [st EXCEPT ![id].progress = progress]

Delete(st, id) == [st EXCEPT ![id] = NoTask]

\* the local `task` of a worker: nil, or the row it loaded.  The loop reads
\* only task.ID and whether task.State is completed or failed, so every other
\* State is kept as "live"
NilTask == "nil"

GetByID(st, id) ==
    IF ~Exists(st, id) THEN NilTask
    ELSE IF st[id].state \in {"completed", "failed"} THEN st[id].state
    ELSE "live"

(***************************************************************************)
(* TaskManager                                                             *)
(***************************************************************************)
\* RemoveTask closes the registry of the registered task object and deletes the entry
RemoveTaskConns(mg, cn, id) ==
    IF mg[id] = 0 THEN cn ELSE [cn EXCEPT ![mg[id]] = {}]

RemoveTaskMap(mg, id) == [mg EXCEPT ![id] = 0]

(***************************************************************************)
(* Initial state.  The metadata table outlives the process: at start-up it *)
(* is empty or already holds a row in one of the StateType values, with    *)
(* the progress the worker writes on entry to that state.                  *)
(***************************************************************************)
PreExisting ==
    {[state |-> s, progress |-> IF s = "init" THEN 0 ELSE progressForState(s),
      error_message |-> IF s = "failed" THEN "permission denied" ELSE "",
      started_at |-> FALSE, completed_at |-> FALSE] : s \in StateType}

\* `loaded` is the State of the object StartTask loaded and registered in the
\* live map; `task` is the worker's local variable, reloaded every iteration
IdleWorker == [pc |-> "idle", id |-> "t1", sm |-> "init", task |-> NilTask,
               orig |-> TRUE, loaded |-> NilTask]

DoneWorker == [IdleWorker EXCEPT !.pc = "done"]

\* the subscriber before StartReplication: nothing received, nothing acknowledged
NoMsg == [kind |-> "none", start |-> 0, len |-> 0, rel |-> 0, handled |-> FALSE]

WalInit ==
    /\ streaming = FALSE
    /\ pending = NoMsg
    /\ tableMapping = {}
    /\ lastStart = 0
    /\ lastAck = 0
    /\ maxAck = 0
    /\ inTxn = FALSE
    /\ txnRow = -1
    /\ walEnd = 0

\* a context nobody cancelled
Background == [done |-> FALSE, err |-> ""]

\* no retry loop, validation loop or switch request in hand
NoLoop == [pc |-> "none", sm |-> "init", attempt |-> 0, execErr |-> "",
           executions |-> 0, delays |-> <<>>]
NoVal == [pc |-> "none", attempt |-> 0, comparisons |-> 0, err |-> "", seen |-> <<>>]
NoResponse == [code |-> 0, message |-> "", arg |-> ""]

\* a create call that has not begun
NoCreate == [pc |-> "idle", id |-> "t1", result |-> ""]

NoOutcome == [op |-> "", from |-> "", result |-> ""]

\* the rows of the source table, in the order of its first column, and a
\* full copy that has not begun
SourceRows == 1..(MaxRows + 1)
NoCopy == [pc |-> "idle", offset |-> 0, executions |-> 0]

ExtInit ==
    /\ creating = [r \in Workers |-> NoCreate]
    /\ rowOwner = [id \in TaskIds |-> 0]
    /\ outcome = NoOutcome
    /\ validated = {}
    /\ copy = NoCopy
    /\ targetTable = [r \in SourceRows |-> 0]

AuxInit ==
    /\ ExtInit
    /\ loop = NoLoop
    /\ ctx = Background
    /\ request = "none"
    /\ val = NoVal
    /\ counts = <<>>
    /\ response = NoResponse

Init ==
    /\ WalInit
    /\ AuxInit
    /\ store \in [TaskIds -> {NoTask} \cup PreExisting]
    /\ manager = [id \in TaskIds |-> 0]
    /\ workers = [w \in Workers |-> IdleWorker]
    /\ conns = [w \in Workers |-> {}]
    /\ switching = {}
    /\ crashed = FALSE
    /\ calls = 0
    /\ source \in {[wal_level |-> l, slot |-> FALSE, publication |-> FALSE, read_only |-> FALSE] :
                     l \in {"logical", "replica"}}

(***************************************************************************)
(* Facade operations (MigrationService, TaskHandler)                       *)
(***************************************************************************)
CreateTaskWithID(id) ==
    /\ ~crashed
    /\ calls < MaxCalls
    /\ calls' = calls + 1
    /\ ~Exists(store, id)
    /\ store' = [store EXCEPT ![id] = NewTask]
    /\ UNCHANGED <<manager, workers, conns, switching, crashed, source, walVars, auxVars>>

\* outcome of the checks StartTask makes before it registers the task
StartTaskResult(id) ==
    IF ~Exists(store, id) THEN "not found"
    ELSE IF IsTerminal(store[id].state) THEN "terminal state"
    ELSE IF manager[id] # 0 THEN "already running"
    ELSE "ok"

\* StartTask up to the already-running check: loads the row, passes the checks.
\* The state machine NewStateMachine builds later depends only on the row
\* loaded here, so its initial state is fixed at this point
StartTaskCheck(w, id) ==
    /\ ~crashed
    /\ calls < MaxCalls
    /\ calls' = calls + 1
    /\ workers[w].pc = "idle"
    /\ \A v \in Workers : v < w => workers[v].pc # "idle"
    /\ StartTaskResult(id) = "ok"
    /\ workers' = [workers EXCEPT ![w] =
                      [pc |-> "checked", id |-> id, sm |-> getInitialState(store[id].state),
                       task |-> GetByID(store, id), orig |-> TRUE,
                       loaded |-> GetByID(store, id)]]
    /\ UNCHANGED <<store, manager, conns, switching, crashed, source, walVars, auxVars>>

\* ResumeTask: legal only from paused, then StartTask
ResumeTask(w, id) ==
    /\ Exists(store, id)
    /\ store[id].state = "paused"
    /\ StartTaskCheck(w, id)

\* StartTask from AddTask on: registers the loaded task object and spawns
\* the goroutine
StartTaskSpawn(w) ==
    /\ ~crashed
    /\ workers[w].pc = "checked"
    /\ manager' = [manager EXCEPT ![workers[w].id] = w]
    /\ workers' = [workers EXCEPT ![w].pc = "exec"]
    /\ UNCHANGED <<store, conns, switching, crashed, calls, source, walVars, auxVars>>

PauseTask(id) ==
    /\ ~crashed
    /\ calls < MaxCalls
    /\ calls' = calls + 1
    /\ Exists(store, id)
    /\ ~IsTerminal(store[id].state)
    /\ store' = UpdateState(store, id, "paused", "")
    /\ UNCHANGED <<manager, workers, conns, switching, crashed, source, walVars, auxVars>>

\* StopTask: nothing to do when already paused, PauseTask otherwise
StopTask(id) ==
    /\ Exists(store, id)
    /\ store[id].state # "paused"
    /\ PauseTask(id)

CancelTask(id) ==
    /\ ~crashed
    /\ calls < MaxCalls
    /\ calls' = calls + 1
    /\ Exists(store, id)
    /\ ~IsTerminal(store[id].state)
    /\ store' = UpdateState(store, id, "failed", "task cancelled by user")
    /\ UNCHANGED <<manager, workers, conns, switching, crashed, source, walVars, auxVars>>

\* DeleteTask: CancelTask (result ignored), RemoveTask, then delete the row
DeleteTask(id) ==
    /\ ~crashed
    /\ calls < MaxCalls
    /\ calls' = calls + 1
    /\ Exists(store, id)
    /\ store' = Delete(store, id)
    /\ conns' = RemoveTaskConns(manager, conns, id)
    /\ manager' = RemoveTaskMap(manager, id)
    /\ validated' = validated \ {id}
    /\ UNCHANGED <<workers, switching, crashed, source, walVars,
                   loop, ctx, request, val, counts, response, creating, rowOwner, outcome,
                   copy, targetTable>>

\* TaskHandler.SwitchTask: the handler's own check of the persisted state
SwitchTask(id) ==
    /\ ~crashed
    /\ calls < MaxCalls
    /\ calls' = calls + 1
    /\ Exists(store, id)
    /\ store[id].state = "waiting"
    /\ id \notin switching
    /\ switching' = switching \cup {id}
    /\ UNCHANGED <<store, manager, workers, conns, crashed, source, walVars, auxVars>>

\* what TriggerSwitchover does with the row it reads
TriggerSwitchoverResult(id) ==
    IF ~Exists(store, id) THEN "not found"
    ELSE IF store[id].state = "syncing_wal" THEN "ok"
    ELSE "not in a state that allows switchover"

\* MigrationService.TriggerSwitchover, called by the handler after its check
TriggerSwitchover(id) ==
    /\ ~crashed
    /\ id \in switching
    /\ switching' = switching \ {id}
    /\ store' = IF TriggerSwitchoverResult(id) = "ok"
                THEN UpdateState(store, id, "stopping_writes", "")
                ELSE store
    /\ UNCHANGED <<manager, workers, conns, crashed, calls, source, walVars, auxVars>>

(***************************************************************************)
(* The worker goroutine of StartTask                                       *)
(***************************************************************************)
\* a nil `task` is dereferenced: the deferred RemoveTask runs, then the
\* unrecovered panic ends the process
Panic(w) ==
    /\ crashed' = TRUE
    /\ conns' = RemoveTaskConns(manager, conns, workers[w].id)
    /\ manager' = RemoveTaskMap(manager, workers[w].id)
    /\ workers' = [workers EXCEPT ![w] = DoneWorker]
    /\ UNCHANGED <<store, switching, calls, walVars, auxVars>>

\* the goroutine returns: its deferred RemoveTask closes the registry of
\* whichever task object the live map holds for the id and drops the entry
Return(w, cn) ==
    /\ conns' = RemoveTaskConns(manager, cn, workers[w].id)
    /\ manager' = RemoveTaskMap(manager, workers[w].id)
    /\ workers' = [workers EXCEPT ![w] = DoneWorker]

\* task.CloseAllConnections() on the worker's local `task`: the registry the
\* stages use belongs to the object loaded by StartTask, a reloaded row has
\* an empty registry of its own
CloseLocal(cn, w) == IF workers[w].orig THEN [cn EXCEPT ![w] = {}] ELSE cn

\* the retry loop ended with sm.Execute succeeding (at once or after retries):
\* the machine advances, the loop goes on to the state write
ExecuteOk(w) ==
    /\ ~crashed
    /\ workers[w].pc = "exec"
    /\ CanSucceed(workers[w].sm, source)
    /\ \E next \in AdvanceTargets(workers[w].sm) :
          workers' = [workers EXCEPT ![w].pc = "update", ![w].sm = next]
    /\ source' = SourceAfter(workers[w].sm, source)
    /\ conns' = [conns EXCEPT ![w] =
                    IF workers[w].sm \in {"completed", "failed"} THEN {}
                    ELSE @ \cup StateConns(workers[w].sm)]
    /\ validated' = IF workers[w].sm = "validating"
                    THEN validated \cup {workers[w].id} ELSE validated
    /\ UNCHANGED <<store, manager, switching, crashed, calls, walVars,
                   loop, ctx, request, val, counts, response, creating, rowOwner, outcome,
                   copy, targetTable>>

\* the retry loop ended on the backoff select seeing the context done: a
\* retryable error with attempts left, then ctx.Err() is written with failed
\* and the goroutine returns
ExecuteCancelled(w) ==
    /\ ~crashed
    /\ workers[w].pc = "exec"
    /\ CanFail(workers[w].sm)
    /\ \E opened \in ConnPrefixes(workers[w].sm), src \in SourcePartial(workers[w].sm, source) :
          /\ source' = src
          /\ IF workers[w].task = NilTask
             THEN Panic(w)
             ELSE /\ store' = UpdateState(store, workers[w].id, "failed", "context canceled")
                  /\ Return(w, [conns EXCEPT ![w] = @ \cup opened])
                  /\ UNCHANGED <<switching, crashed, calls, walVars, auxVars>>

\* the retry loop ended with an error that is not retryable or with the last
\* attempt failing: failed and the error text are written, the local task's
\* registry is closed, the goroutine returns
ExecuteFail(w) ==
    /\ ~crashed
    /\ workers[w].pc = "exec"
    /\ CanFail(workers[w].sm)
    /\ \E err \in StageErrors(workers[w].sm, source), opened \in ConnPrefixes(workers[w].sm),
          src \in SourcePartial(workers[w].sm, source) :
          /\ source' = src
          /\ IF workers[w].task = NilTask
             THEN Panic(w)
             ELSE /\ store' = UpdateState(store, workers[w].id, "failed", err)
                  /\ Return(w, CloseLocal([conns EXCEPT ![w] = @ \cup opened], w))
                  /\ UNCHANGED <<switching, crashed, calls, walVars, auxVars>>

\* the state write after a successful Execute: the machine's current state
\* name and its coarse progress
WriteState(w) ==
    /\ ~crashed
    /\ workers[w].pc = "update"
    /\ UNCHANGED source
    /\ IF workers[w].task = NilTask
       THEN Panic(w)
       ELSE /\ store' = UpdateProgress(
                           UpdateState(store, workers[w].id, workers[w].sm, ""),
                           workers[w].id, progressForState(workers[w].sm))
            /\ workers' = [workers EXCEPT ![w].pc = "check"]
            /\ UNCHANGED <<manager, conns, switching, crashed, calls, walVars, auxVars>>

\* the terminal check on the local task, then the reload of the row
CheckAndReload(w) ==
    /\ ~crashed
    /\ workers[w].pc = "check"
    /\ IF workers[w].task \in {"completed", "failed"}
       THEN Return(w, CloseLocal(conns, w))
       ELSE /\ workers' = [workers EXCEPT ![w].pc = "exec",
                                          ![w].task = GetByID(store, workers[w].id),
                                          ![w].orig = FALSE]
            /\ UNCHANGED <<manager, conns>>
    /\ UNCHANGED <<store, switching, crashed, calls, source, walVars, auxVars>>

Next ==
    \/ \E id \in TaskIds : CreateTaskWithID(id)
    \/ \E w \in Workers, id \in TaskIds : StartTaskCheck(w, id)
    \/ \E w \in Workers, id \in TaskIds : ResumeTask(w, id)
    \/ \E w \in Workers : StartTaskSpawn(w)
    \/ \E id \in TaskIds : PauseTask(id)
    \/ \E id \in TaskIds : StopTask(id)
    \/ \E id \in TaskIds : CancelTask(id)
    \/ \E id \in TaskIds : DeleteTask(id)
    \/ \E id \in TaskIds : SwitchTask(id)
    \/ \E id \in TaskIds : TriggerSwitchover(id)
    \/ \E w \in Workers : ExecuteOk(w)
    \/ \E w \in Workers : ExecuteCancelled(w)
    \/ \E w \in Workers : ExecuteFail(w)
    \/ \E w \in Workers : WriteState(w)
    \/ \E w \in Workers : CheckAndReload(w)

Spec == Init /\ [][Next]_vars

(***************************************************************************)
(* replication.Subscriber: the logical replication stream of one slot.     *)
(* The source delivers XLogData messages in WAL order and keepalives; the  *)
(* subscriber answers with standby status updates.                         *)
(***************************************************************************)
Lsn == 0..MaxLsn
MsgLens == {1, 2}
RelationIds == {1}
MsgKinds == {"Relation", "Begin", "Insert", "Commit", "Origin"}

Max(a, b) == IF a >= b THEN a ELSE b

\* wal.Decoder.Decode: Origin and Type messages have no decoded form
Decode(kind) == kind \in {"Relation", "Begin", "Insert", "Update", "Delete", "Truncate", "Commit"}

\* wal.Handler.Handle: row changes need the relation's mapping, everything
\* else that decodes is accepted
Handle(kind, rel, mapping) ==
    IF kind \in {"Insert", "Update", "Delete"} THEN rel \in mapping ELSE TRUE

\* pglogrepl.SendStandbyStatusUpdate as the source sees it
StatusUpdate(pos) ==
    /\ lastAck' = pos
    /\ maxAck' = Max(maxAck, pos)

\* the stream as ProcessReplicationStream starts on it
InitWal ==
    /\ AuxInit
    /\ store = [id \in TaskIds |-> NoTask]
    /\ manager = [id \in TaskIds |-> 0]
    /\ workers = [w \in Workers |-> IdleWorker]
    /\ conns = [w \in Workers |-> {}]
    /\ switching = {}
    /\ crashed = FALSE
    /\ calls = 0
    /\ source = [wal_level |-> "logical", slot |-> TRUE, publication |-> TRUE, read_only |-> FALSE]
    /\ streaming = TRUE
    /\ pending = NoMsg
    /\ tableMapping = {}
    /\ lastStart = 0
    /\ lastAck = 0
    /\ maxAck = 0
    /\ inTxn = FALSE
    /\ txnRow = -1
    /\ walEnd = 0

\* handleCopyData, keepalive branch: a non-zero ServerWALEnd is acknowledged
\* at once; a failed send ends the stream
ReceiveKeepalive(serverWALEnd, sendOk) ==
    /\ streaming
    /\ pending = NoMsg
    /\ serverWALEnd >= walEnd
    /\ walEnd' = serverWALEnd
    /\ IF serverWALEnd > 0
       THEN IF sendOk
            THEN StatusUpdate(serverWALEnd) /\ UNCHANGED streaming
            ELSE streaming' = FALSE /\ UNCHANGED <<lastAck, maxAck>>
       ELSE UNCHANGED <<streaming, lastAck, maxAck>>
    /\ UNCHANGED <<pending, tableMapping, lastStart, inTxn, txnRow, svcVars, auxVars>>

\* handleCopyData, XLogData branch up to ParseXLogData: the next message of
\* the stream, at or after the previous message's wal_start
ReceiveXLogData(kind, start, len, rel) ==
    /\ streaming
    /\ pending = NoMsg
    /\ start >= lastStart
    /\ pending' = [kind |-> kind, start |-> start, len |-> len, rel |-> rel, handled |-> FALSE]
    /\ lastStart' = start
    /\ walEnd' = Max(walEnd, start)
    /\ inTxn' = (inTxn \/ kind = "Begin")
    /\ txnRow' = IF kind = "Begin" THEN -1
                 ELSE IF inTxn /\ kind = "Insert" /\ txnRow = -1 THEN start
                 ELSE txnRow
    /\ UNCHANGED <<streaming, tableMapping, lastAck, maxAck, svcVars, auxVars>>

\* Parse, Decode and Handle of the message; any error ends the stream
HandleMessage ==
    /\ streaming
    /\ pending # NoMsg
    /\ ~pending.handled
    /\ IF Decode(pending.kind) /\ Handle(pending.kind, pending.rel, tableMapping)
       THEN /\ pending' = [pending EXCEPT !.handled = TRUE]
            /\ tableMapping' = IF pending.kind = "Relation"
                               THEN tableMapping \cup {pending.rel} ELSE tableMapping
            /\ inTxn' = (inTxn /\ pending.kind # "Commit")
            /\ txnRow' = IF pending.kind = "Commit" THEN -1 ELSE txnRow
            /\ UNCHANGED streaming
       ELSE /\ pending' = NoMsg
            /\ streaming' = FALSE
            /\ UNCHANGED <<tableMapping, inTxn, txnRow>>
    /\ UNCHANGED <<lastStart, lastAck, maxAck, walEnd, svcVars, auxVars>>

\* the status update after Handle: WALStart + len(WALData)
AcknowledgeMessage(sendOk) ==
    /\ streaming
    /\ pending # NoMsg
    /\ pending.handled
    /\ pending' = NoMsg
    /\ IF sendOk
       THEN StatusUpdate(pending.start + pending.len) /\ UNCHANGED streaming
       ELSE streaming' = FALSE /\ UNCHANGED <<lastAck, maxAck>>
    /\ UNCHANGED <<tableMapping, lastStart, inTxn, txnRow, walEnd, svcVars, auxVars>>

\* the loop's select sees ctx.Done, or ReceiveMessage fails
StopStream ==
    /\ streaming
    /\ pending = NoMsg
    /\ streaming' = FALSE
    /\ UNCHANGED <<pending, tableMapping, lastStart, lastAck, maxAck, inTxn, txnRow, walEnd,
                   svcVars, auxVars>>

NextWal ==
    \/ \E e \in Lsn, ok \in BOOLEAN : ReceiveKeepalive(e, ok)
    \/ \E k \in MsgKinds, p \in Lsn, n \in MsgLens, r \in RelationIds : ReceiveXLogData(k, p, n, r)
    \/ HandleMessage
    \/ \E ok \in BOOLEAN : AcknowledgeMessage(ok)
    \/ StopStream

SpecWal == InitWal /\ [][NextWal]_vars

TypeOK ==
    /\ manager \in [TaskIds -> {0} \cup Workers]
    /\ \A id \in TaskIds : store[id].state \in AllStates \cup {"absent"}
    /\ \A w \in Workers : conns[w] \subseteq ConnKeys
    /\ calls \in 0..MaxCalls

\* a spawned goroutine that has not returned
Running(w) == workers[w].pc \in {"exec", "update", "check"}

(***************************************************************************)
(* Properties                                                              *)
(***************************************************************************)

\* C1: concurrent StartTask calls for one task id leave at most one running
\* worker for that id (every other call is refused and spawns nothing).
C1_SingleFlight ==
    \A id \in TaskIds :
        Cardinality({w \in Workers : Running(w) /\ workers[w].id = id}) <= 1

\* C2: every change of a task's persisted state follows an edge of the state
\* graph: an edge of either transition table, the same edge under the
\* historical names, or the pause / fail edge out of a non-terminal state.
C2_GraphEdgesOnly ==
    [][\A id \in TaskIds :
          LET s == store[id].state
              t == store'[id].state
              Alias(x) == CASE x = "creating_tables" -> "create_tables"
                            [] x = "migrating_data"  -> "full_sync"
                            [] x = "syncing_wal"     -> "inc_sync"
                            [] x = "stopping_writes" -> "validating"
                            [] x = "finalizing"      -> "completed"
                            [] OTHER                 -> x
          IN  (Exists(store, id) /\ Exists(store', id) /\ s # t) =>
                 \/ CanTransition(s, t)
                 \/ LegacyCanTransition(s, t)
                 \/ CanTransition(Alias(s), Alias(t))
                 \/ Alias(s) = Alias(t)
                 \/ ~IsTerminal(s) /\ t \in {"paused", "failed"}]_vars

\* C3: no standby status update acknowledges a position covering an event
\* that has not been handled yet: a message the subscriber is still working
\* on starts at or after every position acknowledged so far.
C3_AckAfterApply ==
    (pending # NoMsg /\ ~pending.handled) => maxAck <= pending.start

\* C4: once paused is persisted, the persisted state stays paused until the
\* task fails or its row is deleted; no worker moves it on to a later stage.
C4_PausedHolds ==
    [][\A id \in TaskIds :
          store[id].state = "paused" => store'[id].state \in {"paused", "failed", "absent"}]_vars

\* C5: a worker started for a paused task continues from a real stage: the
\* state machine of a running worker is never parked on the paused state.
C5_ResumeContinuesFromStage ==
    \A w \in Workers : Running(w) => workers[w].sm # "paused"

\* C6: a switch request accepted for a task persisted as waiting ends with
\* the persisted state advanced to validating.
C6_SwitchAdvances ==
    [][\A id \in TaskIds :
          (id \in switching /\ id \notin switching' /\ store[id].state = "waiting")
             => store'[id].state = "validating"]_vars

\* C7: a worker whose task row has been deleted executes no further stage.
C7_DeleteStopsWorker ==
    [][\A w \in Workers :
          (workers[w].pc = "exec" /\ workers[w].task = NilTask)
             => workers'[w].pc # "update"]_vars

\* C8: terminal states are absorbing: a row persisted as completed or failed
\* is never rewritten to a non-terminal state.
C8_TerminalAbsorbing ==
    [][\A id \in TaskIds :
          (store[id].state \in {"completed", "failed"} /\ Exists(store', id))
             => IsTerminal(store'[id].state)]_vars

\* C9: the persisted progress of a task never decreases.
C9_ProgressMonotone ==
    [][\A id \in TaskIds :
          (Exists(store, id) /\ Exists(store', id))
             => store'[id].progress >= store[id].progress]_vars

\* C10: once a task is terminal or deleted and no StartTask call or worker
\* of it is still in flight, every connection registry is empty.
C10_NoLeakedHandles ==
    (/\ ~crashed
     /\ \A id \in TaskIds : ~Exists(store, id) \/ IsTerminal(store[id].state)
     /\ \A w \in Workers : workers[w].pc \in {"idle", "done"})
       => \A w \in Workers : conns[w] = {}

(***************************************************************************)
(* The retry loop of the worker goroutine, one stage at a time, with the   *)
(* context it was given: the context of the HTTP request that called       *)
(* StartTask.  The task's row exists throughout.                           *)
(***************************************************************************)
maxRetries == 3
baseDelayMs == 500

retryHints == {"timeout", "temporarily", "connection refused", "deadlock detected"}

\* error texts a stage's Execute returns in this model
LoopErrors == {"connection refused", "i/o timeout", "Deadlock Detected", "permission denied"}

\* strings.ToLower on the error texts of the model
ToLower(msg) == IF msg = "Deadlock Detected" THEN "deadlock detected" ELSE msg

\* strings.Contains on the error texts of the model and the retry hints
Contains(msg, h) ==
    <<msg, h>> \in {<<"connection refused", "connection refused">>,
                    <<"i/o timeout", "timeout">>,
                    <<"deadlock detected", "deadlock detected">>}

isRetryable(err) ==
    /\ err # ""
    /\ \E h \in retryHints : Contains(ToLower(err), h)

\* a backoff that grows by baseDelayMs each time
DelayLinear(n) == baseDelayMs * (n + 1)

\* delay := baseDelayMs * (1 << attempt)
Delay(n) == baseDelayMs * (2 ^ n)

\* a select without the ctx.Done() case
TimerFiresAlways(c) == TRUE

\* the backoff select: time.After fires first only while the context is not done
TimerFires(c) == ~c.done

\* the errors Execute of a stage may return: an error of its own, or, from the
\* one stage that selects on ctx.Done(), the context's error
AttemptErrors(sm, c) ==
    IF ~CanFail(sm) THEN {}
    ELSE LoopErrors \cup (IF c.done /\ sm = "validating" THEN {c.err} ELSE {})

InitRetry ==
    /\ WalInit
    /\ ExtInit
    /\ store = [id \in TaskIds |-> NewTask]
    /\ manager = [id \in TaskIds |-> 1]
    /\ workers = [w \in Workers |-> IdleWorker]
    /\ conns = [w \in Workers |-> {}]
    /\ switching = {}
    /\ crashed = FALSE
    /\ calls = 0
    /\ source = [wal_level |-> "logical", slot |-> FALSE, publication |-> FALSE, read_only |-> FALSE]
    /\ loop = [NoLoop EXCEPT !.pc = "call", !.sm = getInitialState(NewTask.state)]
    /\ ctx = Background
    /\ request = "open"
    /\ val = NoVal
    /\ counts = <<>>
    /\ response = NoResponse

retryFrame == <<manager, workers, conns, switching, crashed, calls, source, walVars,
                val, counts, response, extVars>>

\* sm.Execute returns nil: the loop breaks, the state and progress are written;
\* after CompletedState the reloaded task is terminal and the goroutine returns
AttemptOk ==
    /\ loop.pc = "call"
    /\ \E next \in AdvanceTargets(loop.sm) :
          /\ store' = UpdateProgress(UpdateState(store, "t1", next, ""), "t1", progressForState(next))
          /\ loop' = IF loop.sm = "completed"
                     THEN [loop EXCEPT !.pc = "finished", !.execErr = "",
                                       !.executions = @ + 1]
                     ELSE [NoLoop EXCEPT !.pc = "call", !.sm = next]
    /\ UNCHANGED <<ctx, request, retryFrame>>

\* sm.Execute returns an error that ends the loop: not retryable, or the
\* last attempt; failed and the error text are written, the goroutine returns
AttemptFatal(err) ==
    /\ loop.pc = "call"
    /\ err \in AttemptErrors(loop.sm, ctx)
    /\ ~isRetryable(err) \/ loop.attempt = maxRetries
    /\ store' = UpdateState(store, "t1", "failed", err)
    /\ loop' = [loop EXCEPT !.pc = "failed", !.execErr = err, !.executions = @ + 1]
    /\ UNCHANGED <<ctx, request, retryFrame>>

\* sm.Execute returns a retryable error with attempts left: the goroutine
\* parks in the backoff select
AttemptRetryable(err) ==
    /\ loop.pc = "call"
    /\ err \in AttemptErrors(loop.sm, ctx)
    /\ isRetryable(err) /\ loop.attempt # maxRetries
    /\ loop' = [loop EXCEPT !.pc = "backoff", !.execErr = err, !.executions = @ + 1]
    /\ UNCHANGED <<store, ctx, request, retryFrame>>

\* case <-time.After(delay): the next attempt
BackoffElapsed ==
    /\ loop.pc = "backoff"
    /\ TimerFires(ctx)
    /\ loop' = [loop EXCEPT !.pc = "call", !.attempt = @ + 1,
                            !.delays = Append(@, Delay(loop.attempt))]
    /\ UNCHANGED <<store, ctx, request, retryFrame>>

\* case <-ctx.Done(): failed is written with ctx.Err(), the goroutine returns
BackoffCancelled ==
    /\ loop.pc = "backoff"
    /\ ctx.done
    /\ store' = UpdateState(store, "t1", "failed", ctx.err)
    /\ loop' = [loop EXCEPT !.pc = "cancelled"]
    /\ UNCHANGED <<ctx, request, retryFrame>>

\* the StartTask handler writes its response and returns (or the client goes
\* away): net/http cancels the request's context, which is the worker's
RequestReturns ==
    /\ request = "open"
    /\ request' = "returned"
    /\ ctx' = [done |-> TRUE, err |-> "context canceled"]
    /\ UNCHANGED <<store, loop, retryFrame>>

NextRetry ==
    \/ AttemptOk
    \/ \E err \in LoopErrors \cup {"context canceled"} : AttemptFatal(err)
    \/ \E err \in LoopErrors : AttemptRetryable(err)
    \/ BackoffElapsed
    \/ BackoffCancelled
    \/ RequestReturns

SpecRetry == InitRetry /\ [][NextRetry]_vars

\* C14: when sm.Execute returns an error that is not retryable, or any error
\* on the last allowed attempt, that step persists failed together with the
\* text of that error.
C14_FatalErrorPersisted ==
    [][(/\ loop.pc = "call"
        /\ loop'.executions = loop.executions + 1
        /\ loop'.execErr # ""
        /\ ~isRetryable(loop'.execErr) \/ loop.attempt = maxRetries)
          => /\ store'["t1"].state = "failed"
             /\ store'["t1"].error_message = loop'.execErr
             /\ loop'.pc = "failed"]_vars

\* C14 witness: a retryable error on the fourth execution was persisted with failed
C14_Witness ==
    /\ loop.pc = "failed"
    /\ loop.attempt = maxRetries
    /\ isRetryable(loop.execErr)
    /\ store["t1"].state = "failed"
    /\ store["t1"].error_message = loop.execErr

\* C15: a stage invocation executes at most 4 times; it is executed again only
\* after a retryable error, and the waits before the first, second and third
\* retry are 500, 1000 and 2000 ms.
C15_BoundedRetries ==
    /\ loop.attempt <= 3
    /\ loop.executions <= 4
    /\ loop.executions = loop.attempt + (IF loop.pc \in {"call", "none"} THEN 0 ELSE 1)
    /\ loop.delays = SubSeq(<<500, 1000, 2000>>, 1, loop.attempt)
    /\ (loop.pc = "backoff" \/ (loop.pc = "call" /\ loop.attempt > 0)) =>
          loop.execErr \in {"connection refused", "i/o timeout", "Deadlock Detected"}
    /\ (loop.execErr \in {"permission denied", "context canceled"}) => loop.pc = "failed"

\* C15 witness: the third retry ran after waits of 500, 1000 and 2000 ms
C15_Witness ==
    /\ loop.pc = "failed"
    /\ loop.executions = 4
    /\ loop.delays = <<500, 1000, 2000>>

\* C16: once the context is done while the loop waits to retry, the next
\* step of the loop returns without a further execution and persists failed
\* with the context's error.
C16_CancelAbortsRetry ==
    [][(loop.pc = "backoff" /\ ctx.done /\ loop' # loop)
          => /\ loop'.pc = "cancelled"
             /\ loop'.executions = loop.executions
             /\ store'["t1"].state = "failed"
             /\ store'["t1"].error_message = ctx.err]_vars

\* C16 witness: a pending retry was abandoned on cancellation
C16_Witness ==
    /\ loop.pc = "cancelled"
    /\ loop.attempt < maxRetries
    /\ store["t1"].state = "failed"
    /\ store["t1"].error_message = "context canceled"

\* C17: the end of the HTTP request that started the worker never cancels
\* the worker's context and never fails its task.
C17_WorkerOutlivesRequest ==
    request = "returned" =>
        /\ loop.pc # "cancelled"
        /\ ~(store["t1"].state = "failed" /\ store["t1"].error_message = "context canceled")

(***************************************************************************)
(* ValidatingState.Execute: the comparison loop over the covered tables.   *)
(* Row counts move while the loop runs: the source may still take writes   *)
(* and the target may still catch up.                                      *)
(***************************************************************************)
validatingMaxRetries == 10

Tables == {"a", "b"}

ValidationFailed == "validation failed: source and target data do not match after 10 attempts"

\* a comparison that is satisfied by one table with equal counts
AnyMatch(cn) == \E t \in Tables : cn.src[t] = cn.tgt[t]

\* allMatch after the loop over the tables: no table with differing counts
AllMatch(cn) == \A t \in Tables : cn.src[t] = cn.tgt[t]

InitValidate ==
    /\ WalInit
    /\ ExtInit
    /\ store = [id \in TaskIds |-> [state |-> "validating",
                                    progress |-> progressForState("validating"),
                                    error_message |-> "",
                                    started_at |-> FALSE, completed_at |-> FALSE]]
    /\ manager = [id \in TaskIds |-> 1]
    /\ workers = [w \in Workers |-> IdleWorker]
    /\ conns = [w \in Workers |-> {}]
    /\ switching = {}
    /\ crashed = FALSE
    /\ calls = 0
    /\ source = [wal_level |-> "logical", slot |-> TRUE, publication |-> TRUE, read_only |-> TRUE]
    /\ loop = NoLoop
    /\ ctx = Background
    /\ request = "open"
    /\ val = [NoVal EXCEPT !.pc = "compare"]
    /\ counts \in [src : [Tables -> 0..MaxRows], tgt : [Tables -> 0..MaxRows]]
    /\ response = NoResponse

valFrame == <<store, manager, workers, conns, switching, crashed, calls, source, walVars,
              loop, response, extVars>>

\* one pass of the loop body: the counts of every table are read and
\* compared; a match returns nil, a mismatch waits unless it was the last
\* attempt, after which the loop ends and the error is returned
Compare ==
    /\ val.pc = "compare"
    /\ val' = IF AllMatch(counts)
              THEN [val EXCEPT !.pc = "ok", !.comparisons = @ + 1, !.seen = counts]
              ELSE IF val.attempt < validatingMaxRetries - 1
              THEN [val EXCEPT !.pc = "wait", !.comparisons = @ + 1, !.seen = counts]
              ELSE [val EXCEPT !.pc = "failed", !.comparisons = @ + 1, !.seen = counts,
                               !.attempt = @ + 1, !.err = ValidationFailed]
    /\ UNCHANGED <<counts, ctx, request, valFrame>>

\* GetTableCount fails on the source or on the target: the error is returned
CompareError(err) ==
    /\ val.pc = "compare"
    /\ val' = [val EXCEPT !.pc = "failed", !.err = err]
    /\ UNCHANGED <<counts, ctx, request, valFrame>>

\* case <-time.After(retryInterval): the next attempt
WaitElapsed ==
    /\ val.pc = "wait"
    /\ TimerFires(ctx)
    /\ val' = [val EXCEPT !.pc = "compare", !.attempt = @ + 1]
    /\ UNCHANGED <<counts, ctx, request, valFrame>>

\* case <-ctx.Done(): return ctx.Err()
WaitCancelled ==
    /\ val.pc = "wait"
    /\ ctx.done
    /\ val' = [val EXCEPT !.pc = "failed", !.err = ctx.err]
    /\ UNCHANGED <<counts, ctx, request, valFrame>>

\* a row reaches a target table
TargetInsert(t) ==
    /\ counts.tgt[t] < MaxRows
    /\ counts' = [counts EXCEPT !.tgt[t] = @ + 1]
    /\ UNCHANGED <<val, ctx, request, valFrame>>

\* a client inserts a row into a source table
SourceInsert(t) ==
    /\ counts.src[t] < MaxRows
    /\ counts' = [counts EXCEPT !.src[t] = @ + 1]
    /\ UNCHANGED <<val, ctx, request, valFrame>>

NextValidate ==
    \/ Compare
    \/ \E err \in ExecErrors : CompareError(err)
    \/ WaitElapsed
    \/ WaitCancelled
    \/ \E t \in Tables : TargetInsert(t)
    \/ \E t \in Tables : SourceInsert(t)
    \/ RequestReturns

SpecValidate == InitValidate /\ [][NextValidate]_vars

\* C18: one execution of the validating stage compares at most 10 times; it
\* returns success only after an attempt that read equal source and target
\* counts for every covered table, and after 10 attempts that each saw a
\* mismatch it has failed with the validation error.
C18_BoundedValidation ==
    /\ val.comparisons <= 10
    /\ val.pc = "ok" => \A t \in Tables : val.seen.src[t] = val.seen.tgt[t]
    /\ (val.comparisons = 10 /\ val.pc # "ok") =>
          val.pc = "failed" /\ val.err = ValidationFailed

\* C18 witness: the tenth comparison saw a mismatch and the stage failed
C18_Witness ==
    /\ val.pc = "failed"
    /\ val.comparisons = 10
    /\ val.err = ValidationFailed
    /\ \E t \in Tables : val.seen.src[t] # val.seen.tgt[t]

(***************************************************************************)
(* TaskHandler.SwitchTask with the response it writes.  A message built    *)
(* by fmt.Sprintf is its format together with the argument formatted in.   *)
(***************************************************************************)
NotWaitingFormat == "Task must be in 'waiting' state to perform switchover. Current state: %s"

\* a rejection that does not say which state the task is in
SwitchRejectionBare(state) == [code |-> 400, message |-> "Task must be in 'waiting' state", arg |-> ""]

\* 400 Bad Request naming the state the handler read
SwitchRejection(state) == [code |-> 400, message |-> NotWaitingFormat, arg |-> state]

\* the handler's early returns: 404 for an unknown task, 400 for a task
\* that is not waiting; nothing is written
SwitchTaskReject(id) ==
    /\ ~crashed
    /\ ~Exists(store, id) \/ store[id].state # "waiting"
    /\ response' = IF ~Exists(store, id)
                   THEN [code |-> 404, message |-> "Task not found: ", arg |-> "record not found"]
                   ELSE SwitchRejection(store[id].state)
    /\ UNCHANGED <<svcVars, walVars, loop, ctx, request, val, counts, extVars>>

\* the rest of the handler after its check passed: TriggerSwitchover and the
\* 200 or 500 response
SwitchTaskTrigger(id) ==
    /\ ~crashed
    /\ id \in switching
    /\ switching' = switching \ {id}
    /\ store' = IF TriggerSwitchoverResult(id) = "ok"
                THEN UpdateState(store, id, "stopping_writes", "")
                ELSE store
    /\ response' = IF TriggerSwitchoverResult(id) = "ok"
                   THEN [code |-> 200, message |-> "Switchover triggered successfully", arg |-> ""]
                   ELSE [code |-> 500, message |-> "Failed to trigger switchover: ",
                         arg |-> TriggerSwitchoverResult(id)]
    /\ UNCHANGED <<manager, workers, conns, crashed, calls, source, walVars,
                   loop, ctx, request, val, counts, extVars>>

NextSwitch ==
    \/ \E id \in TaskIds : CreateTaskWithID(id)
    \/ \E id \in TaskIds : PauseTask(id)
    \/ \E id \in TaskIds : CancelTask(id)
    \/ \E id \in TaskIds : SwitchTask(id)
    \/ \E id \in TaskIds : SwitchTaskReject(id)
    \/ \E id \in TaskIds : SwitchTaskTrigger(id)

SpecSwitch == Init /\ [][NextSwitch]_vars

CreateNeverFails(st, id) == FALSE

\* MigrationRepository.Create: the INSERT violates the primary key on id
CreateFails(st, id) == Exists(st, id)

createFrame == <<manager, workers, conns, switching, crashed, calls, source, walVars,
                 loop, ctx, request, val, counts, response, outcome, validated,
                 copy, targetTable>>

\* taskRepo.GetByID(id) finds a row: "already exists"; otherwise the request
\* goes on to build the task
CreateCheck(r, id) ==
    /\ creating[r].pc = "idle"
    /\ creating' = [creating EXCEPT ![r] =
                       IF Exists(store, id)
                       THEN [pc |-> "done", id |-> id, result |-> "already exists"]
                       ELSE [pc |-> "checked", id |-> id, result |-> ""]]
    /\ UNCHANGED <<store, rowOwner, createFrame>>

\* taskRepo.Create(task): the row is inserted, or the INSERT fails
CreateInsert(r) ==
    /\ creating[r].pc = "checked"
    /\ LET id == creating[r].id IN
         IF CreateFails(store, id)
         THEN /\ creating' = [creating EXCEPT ![r].pc = "done",
                                              ![r].result = "failed to create task"]
              /\ UNCHANGED <<store, rowOwner>>
         ELSE /\ creating' = [creating EXCEPT ![r].pc = "done", ![r].result = "ok"]
              /\ store' = [store EXCEPT ![id] = NewTask]
              /\ rowOwner' = [rowOwner EXCEPT ![id] = r]
    /\ UNCHANGED createFrame

NextCreate ==
    \/ \E r \in Workers, id \in TaskIds : CreateCheck(r, id)
    \/ \E r \in Workers : CreateInsert(r)
    \/ \E id \in TaskIds : PauseTask(id)
    \/ \E id \in TaskIds : CancelTask(id)

SpecCreate == Init /\ [][NextCreate]_vars

\* C21: at most one create call per task id ever succeeds, and a create call
\* that ends while a row with its id exists fails and leaves the row, and
\* whose row it is, as they were.
C21_CreateUnique ==
    [][/\ \A id \in TaskIds :
            Cardinality({r \in Workers : creating'[r].id = id /\ creating'[r].result = "ok"}) <= 1
       /\ \A r \in Workers :
            (/\ creating[r].pc # "done"
             /\ creating'[r].pc = "done"
             /\ Exists(store, creating'[r].id))
               => /\ creating'[r].result # "ok"
                  /\ store' = store
                  /\ rowOwner' = rowOwner]_vars

\* C21 witness: two calls passed the lookup, one inserted the row and the
\* other failed at its INSERT
C21_Witness ==
    /\ creating[1].result = "ok"
    /\ creating[2].result = "failed to create task"
    /\ rowOwner["t1"] = 1
    /\ Exists(store, "t1")

(***************************************************************************)
(* MigrationService.ResumeTask, PauseTask and StopTask with what they      *)
(* return.  A result is "ok" for a nil error, the error text otherwise.    *)
(***************************************************************************)
\* a ResumeTask that goes to StartTask whatever the state
ResumeTaskResultUnchecked(id) == StartTaskResult(id)

ResumeTaskResult(id) ==
    IF ~Exists(store, id) THEN "not found"
    ELSE IF store[id].state # "paused" THEN "task is not paused"
    ELSE StartTaskResult(id)

PauseTaskResult(id) ==
    IF ~Exists(store, id) THEN "not found"
    ELSE IF IsTerminal(store[id].state) THEN "cannot pause task in terminal state"
    ELSE "ok"

\* the store PauseTask leaves
PauseTaskStore(id) ==
    IF PauseTaskResult(id) = "ok" THEN UpdateState(store, id, "paused", "") ELSE store

\* a StopTask that refuses a task that is already paused
StopTaskResultStrict(id) ==
    IF ~Exists(store, id) THEN "not found"
    ELSE IF store[id].state = "paused" THEN "task is already paused"
    ELSE PauseTaskResult(id)

StopTaskResult(id) ==
    IF ~Exists(store, id) THEN "not found"
    ELSE IF IsTerminal(store[id].state) THEN "cannot stop task in terminal state"
    ELSE IF store[id].state = "paused" THEN "ok"
    ELSE PauseTaskResult(id)

\* the store StopTask leaves: untouched for a paused task, PauseTask's otherwise
StopTaskStore(id) ==
    IF StopTaskResult(id) = "ok" /\ store[id].state # "paused" THEN PauseTaskStore(id) ELSE store

facadeFrame == <<conns, switching, crashed, source, walVars,
                 loop, ctx, request, val, counts, response, creating, rowOwner,
                   validated, copy, targetTable>>

\* ResumeTask: the row is read; a task that is not paused is refused, a
\* paused one goes through StartTask's checks and is loaded for its worker
ResumeTaskCall(w, id) ==
    /\ ~crashed
    /\ workers[w].pc = "idle"
    /\ \A v \in Workers : v < w => workers[v].pc # "idle"
    /\ outcome' = [op |-> "resume", from |-> store[id].state, result |-> ResumeTaskResult(id)]
    /\ workers' = IF ResumeTaskResult(id) = "ok"
                  THEN [workers EXCEPT ![w] =
                           [pc |-> "checked", id |-> id, sm |-> getInitialState(store[id].state),
                            task |-> GetByID(store, id), orig |-> TRUE,
                       loaded |-> GetByID(store, id)]]
                  ELSE workers
    /\ UNCHANGED <<store, manager, calls, facadeFrame>>

PauseTaskCall(id) ==
    /\ ~crashed
    /\ outcome' = [op |-> "pause", from |-> store[id].state, result |-> PauseTaskResult(id)]
    /\ store' = PauseTaskStore(id)
    /\ UNCHANGED <<manager, workers, calls, facadeFrame>>

StopTaskCall(id) ==
    /\ ~crashed
    /\ outcome' = [op |-> "stop", from |-> store[id].state, result |-> StopTaskResult(id)]
    /\ store' = StopTaskStore(id)
    /\ UNCHANGED <<manager, workers, calls, facadeFrame>>

NextFacade ==
    \/ \E w \in Workers, id \in TaskIds : ResumeTaskCall(w, id)
    \/ \E w \in Workers : StartTaskSpawn(w)
    \/ \E id \in TaskIds : PauseTaskCall(id)
    \/ \E id \in TaskIds : StopTaskCall(id)
    \/ \E id \in TaskIds : CreateTaskWithID(id)
    \/ \E id \in TaskIds : CancelTask(id)

SpecFacade == Init /\ [][NextFacade]_vars

\* C24: a resume call that finds no task, or a task in a state other than
\* paused, returns an error, hands no task to a worker, registers nothing
\* and leaves the store as it was.
C24_ResumeOnlyFromPaused ==
    [][\A id \in TaskIds :
          (/\ outcome' # outcome
           /\ outcome'.op = "resume"
           /\ store[id].state # "paused")
             => /\ outcome'.result # "ok"
                /\ workers' = workers
                /\ manager' = manager
                /\ store' = store]_vars

\* C24 witness: a resume on a task in init was refused
C24_Witness ==
    /\ outcome = [op |-> "resume", from |-> "init", result |-> "task is not paused"]
    /\ store["t1"].state = "init"
    /\ \A w \in Workers : workers[w].pc = "idle"

\* C25: in every state stop and pause agree: both succeed or both fail, both
\* leave the same store, and the row is still there.
C25_StopIsPause ==
    \A id \in TaskIds :
        /\ (StopTaskResult(id) = "ok") <=> (PauseTaskResult(id) = "ok")
        /\ StopTaskStore(id) = PauseTaskStore(id)
        /\ Exists(store, id) => Exists(StopTaskStore(id), id)

\* C25 witness: stop returned success on a task that was already paused
C25_Witness ==
    /\ outcome = [op |-> "stop", from |-> "paused", result |-> "ok"]
    /\ store["t1"].state = "paused"

\* a task with no StartTask call or worker in flight, in a process still alive
Quiescent ==
    /\ ~crashed
    /\ \A w \in Workers : workers[w].pc \in {"idle", "done"}

\* C11: once a task is persisted as completed, its replication slot and its
\* publication no longer exist on the source.
C11_CompletedDropsSlotAndPublication ==
    \A id \in TaskIds :
        store[id].state = "completed" => ~source.slot /\ ~source.publication

\* C12: when DeleteTask removes a task's row, the task's replication slot and
\* publication are gone from the source.
C12_DeleteDropsSlotAndPublication ==
    [][\A id \in TaskIds :
          (Exists(store, id) /\ ~Exists(store', id))
             => ~source'.slot /\ ~source'.publication]_vars

\* C13: once a task is completed, failed or deleted and no worker of it is
\* left, the source database is not read-only.
C13_WritabilityRestored ==
    (/\ Quiescent
     /\ \A id \in TaskIds : ~Exists(store, id) \/ store[id].state \in {"completed", "failed"})
       => ~source.read_only

\* C20: on a source whose wal_level is not logical no worker gets past
\* InitState, so no later stage is ever persisted or run, and neither the
\* replication slot nor the publication is ever created.
C20_WalLevelGate ==
    source.wal_level # "logical" =>
        /\ ~source.slot /\ ~source.publication
        /\ \A w \in Workers :
              workers[w].sm \notin {"creating_tables", "migrating_data", "syncing_wal", "stopping_writes"}
        /\ \A id \in TaskIds :
              store[id].state \notin {"creating_tables", "migrating_data", "syncing_wal", "stopping_writes"}

\* C20 witness: a started task failed on the wal_level check, message persisted
C20_Witness ==
    /\ source.wal_level # "logical"
    /\ store["t1"].state = "failed"
    /\ store["t1"].error_message = WalLevelError
    /\ workers[1].pc = "done"

\* C22: the persisted error message of a task is non-empty exactly when its
\* persisted state is failed.
C22_ErrorIffFailed ==
    \A id \in TaskIds :
        Exists(store, id) => (store[id].error_message # "" <=> store[id].state = "failed")

\* GetTaskStatus: the duration it reports, 0 standing for the elapsed
\* milliseconds between the two timestamps and -1 for "meaningless"
Duration(row) ==
    IF row.started_at /\ row.completed_at /\ row.state = "completed" THEN 0 ELSE -1

\* C23: the write that makes a task completed leaves it with started_at and
\* completed_at set and a reported duration other than -1.
C23_TimestampsSet ==
    [][\A id \in TaskIds :
          (store[id].state # "completed" /\ store'[id].state = "completed")
             => /\ store'[id].started_at
                /\ store'[id].completed_at
                /\ Duration(store'[id]) # -1]_vars

\* C26: a write that moves a task into a stage leaves its progress at that
\* stage's anchor: init 5, connect 15, create_tables 30, full_sync 60,
\* inc_sync 75, waiting 80, validating 95, completed 100 (a stage persisted
\* under its historical name has the anchor of the stage it stands for).
C26_ProgressAnchors ==
    [][\A id \in TaskIds :
          LET s == store'[id].state
              anchor == CASE s = "init" -> 5
                          [] s = "connect" -> 15
                          [] s \in {"create_tables", "creating_tables"} -> 30
                          [] s \in {"full_sync", "migrating_data"} -> 60
                          [] s \in {"inc_sync", "syncing_wal"} -> 75
                          [] s = "waiting" -> 80
                          [] s = "validating" -> 95
                          [] s = "completed" -> 100
                          [] OTHER -> store'[id].progress
          IN  store'[id].state # store[id].state => store'[id].progress = anchor]_vars

\* C27: a task is moved into the switchover stages, and the source is made
\* read-only, only by a step taken for a switch request that the handler
\* accepted for that task.
C27_SwitchoverNeedsSwitch ==
    [][\A id \in TaskIds :
          /\ (/\ store[id].state \notin {"stopping_writes", "validating"}
              /\ store'[id].state \in {"stopping_writes", "validating"})
                => id \in switching
          /\ (~source.read_only /\ source'.read_only) => id \in switching]_vars

\* C28: while a transaction with a row event is open on the stream (its
\* Commit not yet handled), no standby status update carries a write
\* position past the first row event of that transaction.
C28_AckAfterCommit ==
    [][(txnRow # -1 /\ lastAck' # lastAck) => lastAck' <= txnRow]_vars

\* C29: a worker leaves the Execute of the validating stage (its row-count
\* comparisons have run) only while the source database is read-only.
C29_CompareOnReadOnly ==
    [][\A w \in Workers :
          (workers[w].pc = "exec" /\ workers[w].sm = "validating"
             /\ workers'[w].pc # "exec")
          => source.read_only]_vars

\* C30: the live-task map holds an entry for a task id exactly when a worker
\* goroutine for that id is running.
C30_KeysIffRunning ==
    \A id \in TaskIds :
        (manager[id] # 0) <=> (\E w \in Workers : Running(w) /\ workers[w].id = id)

(***************************************************************************)
(* TaskManager.CleanupCompletedTasks, run by the ticker goroutine of main: *)
(* it reads the State field of the task objects registered in the live map *)
(***************************************************************************)
\* State of the object AddTask registered for id
EntryState(id) == workers[manager[id]].loaded

\* the ids the sweep collects in taskIDsToRemove
taskIDsToRemove == {id \in TaskIds : manager[id] # 0 /\ IsTerminal(EntryState(id))}

CleanupCompletedTasks ==
    /\ ~crashed
    /\ outcome.op # "cleanup"
    /\ \E id \in TaskIds : manager[id] # 0
    /\ conns' = [w \in Workers |->
                   IF \E id \in taskIDsToRemove : manager[id] = w THEN {} ELSE conns[w]]
    /\ manager' = [id \in TaskIds |-> IF id \in taskIDsToRemove THEN 0 ELSE manager[id]]
    /\ outcome' = [op |-> "cleanup", from |-> "", result |-> ""]
    /\ UNCHANGED <<store, workers, switching, crashed, calls, source, walVars,
                   loop, ctx, request, val, counts, response, creating, rowOwner,
                   validated, copy, targetTable>>

NextCleanup ==
    \/ CleanupCompletedTasks
    \/ \E id \in TaskIds : CreateTaskWithID(id)
    \/ \E w \in Workers, id \in TaskIds : StartTaskCheck(w, id)
    \/ \E w \in Workers : StartTaskSpawn(w)
    \/ \E id \in TaskIds : CancelTask(id)
    \/ \E w \in Workers : ExecuteOk(w)
    \/ \E w \in Workers : ExecuteCancelled(w)
    \/ \E w \in Workers : ExecuteFail(w)
    \/ \E w \in Workers : WriteState(w)
    \/ \E w \in Workers : CheckAndReload(w)

SpecCleanup == Init /\ [][NextCleanup]_vars

\* C31: a sweep closes and removes exactly the live-map entries whose
\* persisted state is terminal when it runs, and leaves every other entry.
C31_CleanupExact ==
    [][(outcome' # outcome /\ outcome'.op = "cleanup")
          => \A id \in TaskIds :
                (manager[id] # 0 /\ manager'[id] = 0)
                   <=> (manager[id] # 0 /\ Exists(store, id) /\ IsTerminal(store[id].state))]_vars

\* C32: the registry of a task object is closed only on teardown: no step
\* empties the registry of a worker that is still executing stages of a task
\* whose persisted state is non-terminal.
C32_ClosedOnlyOnTeardown ==
    [][\A w \in Workers :
          (conns[w] # {} /\ conns'[w] = {})
             => ~(/\ workers'[w].pc \in {"exec", "update", "check"}
                  /\ Exists(store', workers'[w].id)
                  /\ ~IsTerminal(store'[workers'[w].id].state))]_vars

(***************************************************************************)
(* replication.SlotManager and PublicationManager on the source database,  *)
(* and the probe-then-create sequence of IncSyncState.Execute.  One slot   *)
(* name and one publication name per task; `creating` holds the position   *)
(* of each execution of the stage.                                         *)
(***************************************************************************)
SlotExists(src) == src.slot
PublicationExists(src) == src.publication

\* pg_create_logical_replication_slot raises an error for a name in use
CreateSlot(src) ==
    IF src.slot THEN [err |-> "failed to create replication slot", src |-> src]
    ELSE [err |-> "", src |-> [src EXCEPT !.slot = TRUE]]

\* CREATE PUBLICATION raises an error for a name in use
CreatePublication(src) ==
    IF src.publication THEN [err |-> "failed to create publication", src |-> src]
    ELSE [err |-> "", src |-> [src EXCEPT !.publication = TRUE]]

\* pg_drop_replication_slot raises an error for an unknown name
DropSlot(src) ==
    IF src.slot THEN [err |-> "", src |-> [src EXCEPT !.slot = FALSE]]
    ELSE [err |-> "failed to drop replication slot", src |-> src]

\* DROP PUBLICATION IF EXISTS
DropPublication(src) == [err |-> "", src |-> [src EXCEPT !.publication = FALSE]]

slotFrame == <<store, manager, workers, conns, switching, crashed, walVars,
               loop, ctx, request, val, counts, response, rowOwner, validated,
               copy, targetTable>>

\* an execution of the stage begins (first run, retry or restart)
IncSyncBegin(e) ==
    /\ creating[e].pc \in {"idle", "done"}
    /\ calls < MaxCalls + 1
    /\ calls' = calls + 1
    /\ creating' = [creating EXCEPT ![e] = [pc |-> "begun", id |-> "t1", result |-> ""]]
    /\ UNCHANGED <<source, outcome, slotFrame>>

IncSyncProbeSlot(e) ==
    /\ creating[e].pc = "begun"
    /\ creating' = [creating EXCEPT ![e].pc =
                       IF SlotExists(source) THEN "slot ready" ELSE "slot absent"]
    /\ UNCHANGED <<source, calls, outcome, slotFrame>>

IncSyncCreateSlot(e) ==
    /\ creating[e].pc = "slot absent"
    /\ source' = CreateSlot(source).src
    /\ creating' = [creating EXCEPT ![e] =
                       IF CreateSlot(source).err # ""
                       THEN [@ EXCEPT !.pc = "done", !.result = CreateSlot(source).err]
                       ELSE [@ EXCEPT !.pc = "slot ready"]]
    /\ UNCHANGED <<calls, outcome, slotFrame>>

IncSyncProbePublication(e) ==
    /\ creating[e].pc = "slot ready"
    /\ creating' = [creating EXCEPT ![e] =
                       IF PublicationExists(source)
                       THEN [@ EXCEPT !.pc = "done", !.result = "ok"]
                       ELSE [@ EXCEPT !.pc = "publication absent"]]
    /\ UNCHANGED <<source, calls, outcome, slotFrame>>

IncSyncCreatePublication(e) ==
    /\ creating[e].pc = "publication absent"
    /\ source' = CreatePublication(source).src
    /\ creating' = [creating EXCEPT ![e].pc = "done",
                                    ![e].result = IF CreatePublication(source).err # ""
                                                  THEN CreatePublication(source).err
                                                  ELSE "ok"]
    /\ UNCHANGED <<calls, outcome, slotFrame>>

DropSlotCall ==
    /\ outcome.op # "drop_slot" \/ outcome.from # "absent"
    /\ source' = DropSlot(source).src
    /\ outcome' = [op |-> "drop_slot", from |-> IF source.slot THEN "present" ELSE "absent",
                   result |-> DropSlot(source).err]
    /\ UNCHANGED <<creating, calls, slotFrame>>

DropPublicationCall ==
    /\ outcome.op # "drop_publication" \/ outcome.from # "absent"
    /\ source' = DropPublication(source).src
    /\ outcome' = [op |-> "drop_publication",
                   from |-> IF source.publication THEN "present" ELSE "absent",
                   result |-> DropPublication(source).err]
    /\ UNCHANGED <<creating, calls, slotFrame>>

NextSlot ==
    \/ \E e \in Workers : IncSyncBegin(e)
    \/ \E e \in Workers : IncSyncProbeSlot(e)
    \/ \E e \in Workers : IncSyncCreateSlot(e)
    \/ \E e \in Workers : IncSyncProbePublication(e)
    \/ \E e \in Workers : IncSyncCreatePublication(e)
    \/ DropSlotCall
    \/ DropPublicationCall

SpecSlot == Init /\ [][NextSlot]_vars

\* C33: every finished execution of the incremental-sync stage, however it
\* interleaves with others, ends without an error and with the slot and the
\* publication present, as long as nothing was dropped.
C33_CreateIdempotent ==
    \A e \in Workers :
        (creating[e].pc = "done" /\ outcome.op = "") => creating[e].result = "ok"

\* C34: DropSlot and DropPublication on a name that does not exist return
\* no error and leave the source as it was.
C34_DropIdempotent ==
    [][(outcome' # outcome /\ outcome'.op \in {"drop_slot", "drop_publication"}
          /\ outcome'.from = "absent")
         => (outcome'.result = "" /\ source' = source)]_vars

\* C35: no worker ever dereferences a nil task record: the process is never
\* ended by a panic of a worker goroutine, wherever a delete lands.
C35_NoNilTaskFault == ~crashed

(***************************************************************************)
(* The service under a fair scheduler: a goroutine that can take a step    *)
(* eventually takes one; HTTP requests may or may not arrive.              *)
(***************************************************************************)
WorkerStep(w) ==
    \/ StartTaskSpawn(w)
    \/ ExecuteOk(w)
    \/ ExecuteCancelled(w)
    \/ ExecuteFail(w)
    \/ WriteState(w)
    \/ CheckAndReload(w)

Fairness == \A w \in Workers : WF_vars(WorkerStep(w))

SpecLive == Init /\ [][Next]_vars /\ Fairness

\* C36: once the persisted state of a task is completed or failed, every
\* worker of that task eventually stops and the live map has no entry for it
\* (or the process has ended).
C36_TerminalStopsWorker ==
    \A id \in TaskIds :
        (Exists(store, id) /\ IsTerminal(store[id].state))
           ~> (\/ crashed
               \/ (/\ manager[id] = 0
                   /\ \A w \in Workers : ~(Running(w) /\ workers[w].id = id)))

NextRecreate ==
    \/ \E r \in Workers, id \in TaskIds : CreateCheck(r, id)
    \/ \E r \in Workers : CreateInsert(r)
    \/ \E w \in Workers, id \in TaskIds : StartTaskCheck(w, id)
    \/ \E w \in Workers : StartTaskSpawn(w)
    \/ \E id \in TaskIds : DeleteTask(id)
    \/ \E w \in Workers : ExecuteOk(w)
    \/ \E w \in Workers : ExecuteCancelled(w)
    \/ \E w \in Workers : ExecuteFail(w)
    \/ \E w \in Workers : WriteState(w)
    \/ \E w \in Workers : CheckAndReload(w)

SpecRecreate == Init /\ [][NextRecreate]_vars

\* C38: the persisted state of a task becomes completed only after an
\* execution of the validating stage for that task has returned success.
C38_CompletedNeedsValidation ==
    [][\A id \in TaskIds :
          (store[id].state # "completed" /\ store'[id].state = "completed")
             => id \in validated]_vars

(***************************************************************************)
(* The full copy of one table: TargetRepository.copyDataBatched reads the  *)
(* source in batches by LIMIT / OFFSET from offset 0 and INSERTs each      *)
(* batch into the target.  Executions follow one another (a retry of the   *)
(* stage by the worker's loop, or a restart of the task).                  *)
(***************************************************************************)
\* rows per batch (batchSize), scaled down
BatchRows == 1

\* SELECT ... ORDER BY 1 LIMIT batchSize OFFSET offset
QueryBatch(offset) == {r \in SourceRows : r > offset /\ r <= offset + BatchRows}

\* INSERT INTO target ... VALUES of the batch
batchInsert(tbl, batch) == [r \in SourceRows |-> IF r \in batch THEN tbl[r] + 1 ELSE tbl[r]]

copyFrame == <<svcVars, walVars, loop, ctx, request, val, counts, response,
               creating, rowOwner, outcome, validated>>

\* FullSyncState.Execute calls CopyData: first execution, or a further one
\* after an execution that failed
CopyDataBegin ==
    /\ copy.pc \in {"idle", "failed"}
    /\ copy.executions < MaxCopies
    /\ copy' = [pc |-> "copying", offset |-> 0, executions |-> copy.executions + 1]
    /\ UNCHANGED <<targetTable, copyFrame>>

\* one round of the loop: query a batch, insert it, advance or finish
CopyBatch ==
    /\ copy.pc = "copying"
    /\ LET batch == QueryBatch(copy.offset) IN
         IF batch = {}
         THEN /\ copy' = [copy EXCEPT !.pc = "done"]
              /\ UNCHANGED targetTable
         ELSE /\ targetTable' = batchInsert(targetTable, batch)
              /\ copy' = IF Cardinality(batch) < BatchRows
                         THEN [copy EXCEPT !.pc = "done"]
                         ELSE [copy EXCEPT !.offset = @ + Cardinality(batch)]
    /\ UNCHANGED copyFrame

\* the query or the INSERT of a round returns an error: CopyData fails with
\* the batches inserted so far left in the target
CopyError ==
    /\ copy.pc = "copying"
    /\ copy' = [copy EXCEPT !.pc = "failed"]
    /\ UNCHANGED <<targetTable, copyFrame>>

NextCopy ==
    \/ CopyDataBegin
    \/ CopyBatch
    \/ CopyError

SpecCopy == Init /\ [][NextCopy]_vars

\* C39: when an execution of the full copy has finished, whatever happened
\* in earlier executions, the target table holds every source row once.
C39_CopyExactlyOnce ==
    copy.pc = "done" => \A r \in SourceRows : targetTable[r] = 1

\* C40: within one subscriber session the write position of each standby
\* status update is at least that of the update before it.
C40_AckMonotone ==
    [][(streaming /\ streaming') => lastAck' >= lastAck]_vars

====
